---- MODULE Spec2Model ----
(***************************************************************************)
(* Model of tools/bench_iterated_f.py: the benchmark sweep, the result     *)
(* collection from the criterion tree and the LaTeX table.                 *)
(*                                                                         *)
(* Text is modelled as a sequence of pieces.  Directory names are          *)
(* sequences of single characters, so str.startswith is the sequence       *)
(* prefix relation.  A Python "X | None" value is a sequence of length 0   *)
(* (None) or 1 (the value).  A Python float is the exact rational          *)
(* [num, den].                                                             *)
(***************************************************************************)
EXTENDS Integers, Sequences, FiniteSets, TLC

VARIABLES skip_run, output, environ, startup_env, fs, pc, idx, active,
          invoked, returncodes, child_env, results, attempted, last,
          exit_code, table, dest

vars == <<skip_run, output, environ, startup_env, fs, pc, idx, active,
          invoked, returncodes, child_env, results, attempted, last,
          exit_code, table, dest>>

(***************************************************************************)
(* Bounds of the model.                                                    *)
(***************************************************************************)
MaxReturnCode == 1
MaxRows == 3

(***************************************************************************)
(* Text helpers.                                                           *)
(***************************************************************************)
Digits == <<"0", "1", "2", "3", "4", "5", "6", "7", "8", "9">>

RECURSIVE str(_)
str(n) ==
    IF n < 10 THEN <<Digits[n + 1]>>
    ELSE str(n \div 10) \o <<Digits[(n % 10) + 1]>>

startswith(name, prefix) ==
    /\ Len(prefix) <= Len(name)
    /\ SubSeq(name, 1, Len(prefix)) = prefix

(***************************************************************************)
(* BENCH_CONFIGS, lines 37-56.                                             *)
(***************************************************************************)
BenchConfig(l, i) == [lanes |-> l, iterations |-> i]

BENCH_CONFIGS ==
    << BenchConfig(1, 2^13), BenchConfig(1, 2^14), BenchConfig(1, 2^15),
       BenchConfig(1, 2^16), BenchConfig(1, 2^17),
       BenchConfig(4, 2^11), BenchConfig(4, 2^12), BenchConfig(4, 2^13),
       BenchConfig(4, 2^14), BenchConfig(4, 2^15),
       BenchConfig(16, 2^9), BenchConfig(16, 2^10), BenchConfig(16, 2^11),
       BenchConfig(16, 2^12), BenchConfig(16, 2^13) >>

NumConfigs == Len(BENCH_CONFIGS)

phases == <<"witness_generation", "proof_generation", "proof_verification">>

(***************************************************************************)
(* run_benchmark, lines 65-87: the environment of the subprocess.          *)
(***************************************************************************)
NativeFlag == <<" -C target-cpu=native">>

EnvGet(env, key, default) == IF key \in DOMAIN env THEN env[key] ELSE default

EnvSet(env, key, value) ==
    [k \in (DOMAIN env) \cup {key} |-> IF k = key THEN value ELSE env[k]]

BenchmarkEnv(os_environ, config) ==
    LET env0 == os_environ
        env1 == EnvSet(env0, "ITERATIONS", str(config.iterations))
        env2 == EnvSet(env1, "LANES", str(config.lanes))
    IN  EnvSet(env2, "RUSTFLAGS", EnvGet(env2, "RUSTFLAGS", <<>>) \o NativeFlag)

\* line 68 without the copy: env is os.environ itself
EnvironAliased(os_environ, env) == env

\* line 68: env is a copy, os.environ keeps its value
EnvironAfterCopy(os_environ, env) == os_environ

(***************************************************************************)
(* The criterion tree.  fs[phase] is the directory                         *)
(* target/criterion/iterated_f_<phase>: whether it exists and its children *)
(* in the order iterdir() yields them.  A child has a name, is a directory *)
(* or a plain file, and holds the content of new/estimates.json:           *)
(*   state           "missing", "garbage" (not JSON) or "json"             *)
(*   top             JSON type of the document                             *)
(*   mean            JSON type of data["mean"], "absent" without the key   *)
(*   point_estimate  JSON type of data["mean"]["point_estimate"]           *)
(*   value           the number, in nanoseconds                            *)
(***************************************************************************)
Doc(st, t, m, pe, v) ==
    [state |-> st, top |-> t, mean |-> m, point_estimate |-> pe, value |-> v]

Entry(n, d, e) == [name |-> n, is_dir |-> d, estimates |-> e]

(***************************************************************************)
(* find_benchmark_dir, lines 90-107.                                       *)
(***************************************************************************)
IterationsText == <<"i", "t", "e", "r", "a", "t", "i", "o", "n", "s", "_">>
LanesText == <<"l", "a", "n", "e", "s", "_">>

Prefix(config) ==
    IF config.lanes = 1
    THEN IterationsText \o str(config.iterations) \o <<"_">>
    ELSE IterationsText \o str(config.iterations) \o <<"_">>
         \o LanesText \o str(config.lanes) \o <<"_">>

\* line 104 without the is_dir() test
EntryMatchesAnyKind(entry, prefix) == startswith(entry.name, prefix)

\* line 104
EntryMatches(entry, prefix) == entry.is_dir /\ startswith(entry.name, prefix)

\* the loop of lines 103-107 over the entries iterdir() yields
RECURSIVE FirstMatch(_, _)
FirstMatch(entries, prefix) ==
    IF entries = <<>> THEN <<>>
    ELSE IF EntryMatches(Head(entries), prefix) THEN <<Head(entries)>>
    ELSE FirstMatch(Tail(entries), prefix)

find_benchmark_dir(workspace, phase, config) ==
    LET criterion_dir == workspace[phase]
    IN  IF ~criterion_dir.exists THEN <<>>
        ELSE FirstMatch(criterion_dir.entries, Prefix(config))

(***************************************************************************)
(* read_benchmark_time, lines 110-124.  The outcome is the exception that  *)
(* leaves the function ("none" when it returns) and the returned value.    *)
(***************************************************************************)
RECURSIVE Gcd(_, _)
Gcd(a, b) == IF b = 0 THEN a ELSE Gcd(b, a % b)

\* the rational n / d in lowest terms
Float(n, d) == [num |-> n \div Gcd(n, d), den |-> d \div Gcd(n, d)]

Outcome(e, v) == [exc |-> e, val |-> v]

\* the exception raised by lines 118-121, "none" when they complete
ReadRaises(doc) ==
    IF doc.state = "garbage" THEN "JSONDecodeError"
    ELSE IF doc.top # "object" THEN "TypeError"
    ELSE IF doc.mean = "absent" THEN "KeyError"
    ELSE IF doc.mean # "object" THEN "TypeError"
    ELSE IF doc.point_estimate = "absent" THEN "KeyError"
    ELSE IF doc.point_estimate # "number" THEN "TypeError"
    ELSE "none"

Caught(exc) == exc \in {"JSONDecodeError", "KeyError"}

NsToMs(ns) == Float(ns, 1000000)

read_benchmark_time(bench_dir) ==
    LET doc == bench_dir.estimates
        exc == ReadRaises(doc)
    IN  IF doc.state = "missing" THEN Outcome("none", <<>>)
        ELSE IF exc = "none" THEN Outcome("none", <<NsToMs(doc.value)>>)
        ELSE IF Caught(exc) THEN Outcome("none", <<>>)
        ELSE Outcome(exc, <<>>)

(***************************************************************************)
(* collect_results, lines 127-148.  dirs and times record what the calls   *)
(* of the loop returned, in phase order.                                   *)
(***************************************************************************)
BenchResult(config, times) ==
    [config |-> config, witness_time_ms |-> times[1],
     proof_time_ms |-> times[2], verify_time_ms |-> times[3]]

Call(config, dirs, reads, exc, ret) ==
    [config |-> config, dirs |-> dirs, reads |-> reads, exc |-> exc, ret |-> ret]

RECURSIVE CollectFrom(_, _, _, _, _)
CollectFrom(workspace, config, k, dirs, reads) ==
    IF k > Len(phases)
    THEN Call(config, dirs, reads, "none",
              <<BenchResult(config, [j \in 1..Len(reads) |-> reads[j].val[1]])>>)
    ELSE LET bench_dir == find_benchmark_dir(workspace, phases[k], config)
         IN  IF bench_dir = <<>>
             THEN Call(config, dirs \o <<bench_dir>>, reads, "none", <<>>)
             ELSE LET time_ms == read_benchmark_time(bench_dir[1])
                  IN  IF time_ms.exc # "none"
                      THEN Call(config, dirs \o <<bench_dir>>,
                                reads \o <<time_ms>>, time_ms.exc, <<>>)
                      ELSE IF time_ms.val = <<>>
                      THEN Call(config, dirs \o <<bench_dir>>,
                                reads \o <<time_ms>>, "none", <<>>)
                      ELSE CollectFrom(workspace, config, k + 1,
                                       dirs \o <<bench_dir>>, reads \o <<time_ms>>)

collect_results(workspace, config) == CollectFrom(workspace, config, 1, <<>>, <<>>)

(***************************************************************************)
(* format_time, lines 151-158.  The digits are those of the exact value    *)
(* rounded half-to-even; the binary rounding error of the float is not     *)
(* modelled.  The piece " us" stands for the unit text " µs".               *)
(***************************************************************************)
RoundDiv(a, b) ==
    LET q == a \div b
        r == a % b
    IN  IF 2 * r > b THEN q + 1
        ELSE IF 2 * r < b THEN q
        ELSE IF q % 2 = 0 THEN q ELSE q + 1

\* f"{x:.1f}" and f"{x:.2f}" of the value scaled / 10^places
Fixed(scaled, places) ==
    IF places = 1
    THEN str(scaled \div 10) \o <<".">> \o str(scaled % 10)
    ELSE str(scaled \div 100) \o <<".">> \o str((scaled % 100) \div 10)
         \o str(scaled % 10)

format_time(time_ms) ==
    IF time_ms.num < time_ms.den
    THEN Fixed(RoundDiv(time_ms.num * 1000 * 10, time_ms.den), 1) \o <<" us">>
    ELSE IF time_ms.num < 1000 * time_ms.den
    THEN Fixed(RoundDiv(time_ms.num * 10, time_ms.den), 1) \o <<" ms">>
    ELSE Fixed(RoundDiv(time_ms.num * 100, time_ms.den * 1000), 2) \o <<" s">>

(***************************************************************************)
(* format_power_of_two, lines 161-167.                                     *)
(***************************************************************************)
RECURSIVE OneBit(_)
OneBit(n) == IF n = 1 THEN TRUE ELSE IF n % 2 = 1 THEN FALSE ELSE OneBit(n \div 2)

RECURSIVE log2(_)
log2(n) == IF n <= 1 THEN 0 ELSE 1 + log2(n \div 2)

format_power_of_two(n) ==
    IF n > 0 /\ OneBit(n)
    THEN <<"$2^{">> \o str(log2(n)) \o <<"}$">>
    ELSE str(n)

(***************************************************************************)
(* generate_latex_table, lines 170-207.  A line is a sequence of pieces;   *)
(* the returned text is the lines joined by the piece "\n".                *)
(***************************************************************************)
TableHead ==
    << <<"\\begin{table}[htbp]">>,
       <<"\\centering">>,
       <<"\\caption{Iterated f benchmark results}">>,
       <<"\\label{tab:iterated-f-benchmark}">>,
       <<"\\begin{tabular}{rrrrrr}">>,
       <<"\\toprule">>,
       <<"Lanes & Iterations & Total Ops & Witness Gen & Proof Gen & Verification \\\\">>,
       <<"\\midrule">> >>

TableFoot ==
    << <<"\\bottomrule">>, <<"\\end{tabular}">>, <<"\\end{table}">> >>

Midrule == <<"\\midrule">>

TableRow(result) ==
    LET lanes == result.config.lanes
        iters == result.config.iterations
        total_ops == lanes * iters
    IN  str(lanes) \o <<" & ">> \o format_power_of_two(iters) \o <<" & ">>
        \o format_power_of_two(total_ops) \o <<" & ">>
        \o format_time(result.witness_time_ms) \o <<" & ">>
        \o format_time(result.proof_time_ms) \o <<" & ">>
        \o format_time(result.verify_time_ms) \o <<" \\\\">>

\* line 190 without the test for None
LaneGroupChangesFromNone(current_lanes, lanes) ==
    current_lanes = <<>> \/ lanes # current_lanes[1]

\* line 190; current_lanes is <<>> for None
LaneGroupChanges(current_lanes, lanes) ==
    current_lanes # <<>> /\ lanes # current_lanes[1]

RECURSIVE TableBody(_, _, _)
TableBody(rs, k, current_lanes) ==
    IF k > Len(rs) THEN <<>>
    ELSE LET lanes == rs[k].config.lanes
         IN  (IF LaneGroupChanges(current_lanes, lanes) THEN <<Midrule>> ELSE <<>>)
             \o <<TableRow(rs[k])>>
             \o TableBody(rs, k + 1, <<lanes>>)

RECURSIVE Join(_)
Join(lines) ==
    IF lines = <<>> THEN <<>>
    ELSE IF Len(lines) = 1 THEN lines[1]
    ELSE lines[1] \o <<"\n">> \o Join(Tail(lines))

generate_latex_table(rs) == Join(TableHead \o TableBody(rs, 1, <<>>) \o TableFoot)

(***************************************************************************)
(* The inputs of a run: the command line, the environment at startup and   *)
(* the criterion tree.                                                     *)
(*                                                                         *)
(* A tree holds, per phase, the "report" directory criterion writes and    *)
(* one directory per configuration named as the benchmark names them, in   *)
(* sweep order or in the reverse order, with at most one damaged place:    *)
(* a phase directory that does not exist, or one configuration's entry of  *)
(* one phase that is absent, a plain file, or has a defective              *)
(* estimates.json.  The tool only reads the tree, and only while it        *)
(* collects: a run that skips the benchmarks starts with the tree it will  *)
(* read, a run that executes them starts without results and finds the     *)
(* tree the subprocesses left when the last of them returns.               *)
(***************************************************************************)
StartupEnvs ==
    { [k \in {"PATH", "ITERATIONS"} |->
          IF k = "PATH" THEN <<"/usr/bin">> ELSE <<"7">>],
      [k \in {"PATH", "RUSTFLAGS", "LANES"} |->
          IF k = "PATH" THEN <<"/usr/bin">>
          ELSE IF k = "RUSTFLAGS" THEN <<"-C opt-level=3">> \o NativeFlag
          ELSE <<"2">>] }

Rest == <<"r">>

UpstreamName(config) ==
    IF config.lanes = 1
    THEN IterationsText \o str(config.iterations) \o <<"_">> \o Rest
    ELSE IterationsText \o str(config.iterations) \o <<"_">>
         \o LanesText \o str(config.lanes) \o <<"_">> \o Rest

\* the point estimate, in nanoseconds, of phase p of configuration k
Estimate(p, k) ==
    IF p = 1 THEN 150000 * k
    ELSE IF p = 2 THEN 130000000 * k
    ELSE 5000 * k + 7

NoFile == Doc("missing", "null", "absent", "absent", 0)

GoodDoc(ns) == Doc("json", "object", "object", "number", ns)

DocKinds ==
    {"nofile", "garbage", "toparray", "nomean", "meannumber",
     "nopoint", "pointstring", "pointnull"}

DocOf(kind, ns) ==
    IF kind = "ok" THEN GoodDoc(ns)
    ELSE IF kind = "nofile" THEN NoFile
    ELSE IF kind = "garbage" THEN Doc("garbage", "null", "absent", "absent", 0)
    ELSE IF kind = "toparray" THEN Doc("json", "array", "absent", "absent", 0)
    ELSE IF kind = "nomean" THEN Doc("json", "object", "absent", "absent", 0)
    ELSE IF kind = "meannumber" THEN Doc("json", "object", "number", "absent", 0)
    ELSE IF kind = "nopoint" THEN Doc("json", "object", "object", "absent", 0)
    ELSE IF kind = "pointstring" THEN Doc("json", "object", "object", "string", 0)
    ELSE Doc("json", "object", "object", "null", 0)

Damage(p, k, kind) == [phase |-> p, config |-> k, kind |-> kind]

Damages ==
    {Damage(0, 0, "ok")}
    \cup {Damage(p, 0, "noroot") : p \in 0..Len(phases)}
    \cup {Damage(p, k, kind) : p \in 1..Len(phases), k \in 1..NumConfigs,
                               kind \in DocKinds \cup {"nodir", "plainfile"}}

\* the entries written for configuration k of phase p: none or one
SiteEntries(p, k, damage) ==
    LET kind == IF damage.phase = p /\ damage.config = k THEN damage.kind ELSE "ok"
        name == UpstreamName(BENCH_CONFIGS[k])
    IN  IF kind = "nodir" THEN <<>>
        ELSE IF kind = "plainfile" THEN <<Entry(name, FALSE, NoFile)>>
        ELSE <<Entry(name, TRUE, DocOf(kind, Estimate(p, k)))>>

RECURSIVE Listing(_, _, _, _)
Listing(p, j, reversed, damage) ==
    IF j > NumConfigs THEN <<>>
    ELSE SiteEntries(p, IF reversed THEN NumConfigs + 1 - j ELSE j, damage)
         \o Listing(p, j + 1, reversed, damage)

ReportDir == Entry(<<"r", "e", "p", "o", "r", "t">>, TRUE, NoFile)

Tree(reversed, damage) ==
    [ph \in {phases[p] : p \in 1..Len(phases)} |->
        LET p == CHOOSE q \in 1..Len(phases) : phases[q] = ph
        IN  IF damage.kind = "noroot" /\ damage.phase \in {0, p}
            THEN [exists |-> FALSE, entries |-> <<>>]
            ELSE [exists |-> TRUE,
                  entries |-> <<ReportDir>> \o Listing(p, 1, reversed, damage)]]

Trees == {Tree(reversed, damage) : reversed \in BOOLEAN, damage \in Damages}

NoResultsYet == Tree(FALSE, Damage(0, 0, "noroot"))

(***************************************************************************)
(* main, lines 210-267, and the interpreter's exit at line 271.            *)
(*   pc         "start", "run" (before run_benchmark of BENCH_CONFIGS[idx]),*)
(*              "wait" (inside subprocess.run), "collect" (before           *)
(*              collect_results of BENCH_CONFIGS[idx]), "report" (line 251),*)
(*              "exit" (main returned), "raised" (an exception left main)   *)
(*   active     the configurations whose subprocess is running              *)
(*   invoked    the configurations a subprocess was started for, in order   *)
(*   returncodes the return codes of the finished subprocesses, in order    *)
(*   attempted  the configurations collect_results was called for          *)
(*   last       the last call of collect_results                           *)
(*   exit_code  the exit status of the process, <<>> while it runs         *)
(*   table, dest  the text written and where ("file", "stdout", "none")    *)
(***************************************************************************)
Init ==
    /\ skip_run \in BOOLEAN
    /\ output \in BOOLEAN
    /\ environ \in StartupEnvs
    /\ startup_env = environ
    /\ fs \in IF skip_run THEN Trees ELSE {NoResultsYet}
    /\ pc = "start"
    /\ idx = 1
    /\ active = {}
    /\ invoked = <<>>
    /\ returncodes = <<>>
    /\ child_env = <<>>
    /\ results = <<>>
    /\ attempted = <<>>
    /\ last = <<>>
    /\ exit_code = <<>>
    /\ table = <<>>
    /\ dest = "none"

\* lines 225-231 and 237-239
Start ==
    /\ pc = "start"
    /\ pc' = IF skip_run THEN "collect" ELSE "run"
    /\ UNCHANGED <<skip_run, output, environ, startup_env, fs, idx, active,
                   invoked, returncodes, child_env, results, attempted, last,
                   exit_code, table, dest>>

\* run_benchmark, lines 67-81: build env and start the subprocess
Spawn ==
    /\ pc = "run"
    /\ LET env == BenchmarkEnv(environ, BENCH_CONFIGS[idx])
       IN  /\ child_env' = <<env>>
           /\ environ' = EnvironAfterCopy(environ, env)
    /\ active' = active \cup {idx}
    /\ invoked' = Append(invoked, idx)
    /\ pc' = "wait"
    /\ UNCHANGED <<skip_run, output, startup_env, fs, idx, returncodes,
                   results, attempted, last, exit_code, table, dest>>

\* lines 83-87 without the test of the return code
RunSucceededAlways(returncode) == TRUE

\* run_benchmark, lines 83-87
RunSucceeded(returncode) == returncode = 0

\* line 235 as a break out of the loop
AfterRunBreaks(ok, i) ==
    IF ~ok THEN [pc |-> "collect", idx |-> 1, exit_code |-> <<>>]
    ELSE IF i < NumConfigs THEN [pc |-> "run", idx |-> i + 1, exit_code |-> <<>>]
    ELSE [pc |-> "collect", idx |-> 1, exit_code |-> <<>>]

\* main, lines 232-239: where main continues after run_benchmark returned
AfterRun(ok, i) ==
    IF ~ok THEN [pc |-> "exit", idx |-> i, exit_code |-> <<1>>]
    ELSE IF i < NumConfigs THEN [pc |-> "run", idx |-> i + 1, exit_code |-> <<>>]
    ELSE [pc |-> "collect", idx |-> 1, exit_code |-> <<>>]

\* the subprocess exits with returncode; lines 83-87 and 232-235
Finish(returncode) ==
    /\ pc = "wait"
    /\ active' = active \ {idx}
    /\ returncodes' = Append(returncodes, returncode)
    /\ LET next == AfterRun(RunSucceeded(returncode), idx)
       IN  /\ pc' = next.pc
           /\ idx' = next.idx
           /\ exit_code' = next.exit_code
           /\ IF next.pc = "collect" THEN fs' \in Trees ELSE fs' = fs
    /\ UNCHANGED <<skip_run, output, environ, startup_env, invoked,
                   child_env, results, attempted, last, table, dest>>

\* main, lines 242-243
Collected(rs, call) == IF call.ret # <<>> THEN Append(rs, call.ret[1]) ELSE rs

\* one iteration of the loop of lines 240-249; an exception of
\* collect_results leaves main and the interpreter exits with status 1
Collect ==
    /\ pc = "collect"
    /\ LET call == collect_results(fs, BENCH_CONFIGS[idx])
       IN  /\ last' = <<call>>
           /\ attempted' = Append(attempted, idx)
           /\ IF call.exc # "none"
              THEN /\ pc' = "raised"
                   /\ exit_code' = <<1>>
                   /\ UNCHANGED <<results, idx>>
              ELSE /\ results' = Collected(results, call)
                   /\ pc' = IF idx < NumConfigs THEN "collect" ELSE "report"
                   /\ idx' = IF idx < NumConfigs THEN idx + 1 ELSE idx
                   /\ UNCHANGED exit_code
    /\ UNCHANGED <<skip_run, output, environ, startup_env, fs, active, invoked,
                   returncodes, child_env, table, dest>>

\* lines 251-267
Report ==
    /\ pc = "report"
    /\ IF results = <<>>
       THEN /\ exit_code' = <<1>>
            /\ UNCHANGED <<table, dest>>
       ELSE /\ table' = generate_latex_table(results)
            /\ dest' = IF output THEN "file" ELSE "stdout"
            /\ exit_code' = <<0>>
    /\ pc' = "exit"
    /\ UNCHANGED <<skip_run, output, environ, startup_env, fs, idx, active,
                   invoked, returncodes, child_env, results, attempted, last>>

Next ==
    \/ Start
    \/ Spawn
    \/ \E returncode \in 0..MaxReturnCode : Finish(returncode)
    \/ Collect
    \/ Report

Spec == Init /\ [][Next]_vars

(***************************************************************************)
(* The report generator on its own: main at line 251 with a list of        *)
(* results drawn from all lists of at most MaxRows results of ResultPool.  *)
(***************************************************************************)
PoolResult(l, i, w, p, v) ==
    [config |-> BenchConfig(l, i), witness_time_ms |-> NsToMs(w),
     proof_time_ms |-> NsToMs(p), verify_time_ms |-> NsToMs(v)]

ResultPool ==
    { PoolResult(1, 2^13, 1500000, 2300000, 500000),
      PoolResult(1, 2^14, 3100000, 1200000000, 999950),
      PoolResult(4, 2^11, 1600000, 2400000, 600000),
      PoolResult(4, 2^12, 3300000, 999900000, 45000),
      PoolResult(16, 2^9, 1700000, 2500000, 700000) }

ResultLists == UNION {[1..n -> ResultPool] : n \in 0..MaxRows}

InitTable ==
    /\ skip_run = TRUE
    /\ output \in BOOLEAN
    /\ environ \in StartupEnvs
    /\ startup_env = environ
    /\ fs = NoResultsYet
    /\ pc = "report"
    /\ idx = NumConfigs
    /\ active = {}
    /\ invoked = <<>>
    /\ returncodes = <<>>
    /\ child_env = <<>>
    /\ results \in ResultLists
    /\ attempted = <<>>
    /\ last = <<>>
    /\ exit_code = <<>>
    /\ table = <<>>
    /\ dest = "none"

NextTable == Report

SpecTable == InitTable /\ [][NextTable]_vars

(***************************************************************************)
(* Helpers of the properties: reading text back.                           *)
(***************************************************************************)
DigitValue(c) == CHOOSE d \in 0..9 : Digits[d + 1] = c

IsDecimal(text) ==
    /\ text # <<>>
    /\ \A k \in 1..Len(text) : \E d \in 0..9 : Digits[d + 1] = text[k]
    /\ Len(text) > 1 => text[1] # "0"

RECURSIVE DecimalValue(_)
DecimalValue(text) ==
    IF text = <<>> THEN 0
    ELSE 10 * DecimalValue(SubSeq(text, 1, Len(text) - 1)) + DigitValue(text[Len(text)])

\* the pieces of text between the occurrences of sep
Split(text, sep) ==
    LET cuts == {i \in 1..Len(text) : text[i] = sep}
        cut(j) == CHOOSE i \in cuts : Cardinality({c \in cuts : c < i}) = j - 1
        n == Cardinality(cuts) + 1
    IN  [j \in 1..n |->
            SubSeq(text, IF j = 1 THEN 1 ELSE cut(j - 1) + 1,
                         IF j = n THEN Len(text) ELSE cut(j) - 1)]

HasPrefix(name, prefix) ==
    /\ Len(prefix) <= Len(name)
    /\ \A k \in 1..Len(prefix) : name[k] = prefix[k]

Failed == \E k \in 1..Len(returncodes) : returncodes[k] # 0

(***************************************************************************)
(* C1: fail-fast.  Once a benchmark subprocess has returned non-zero, main *)
(* has returned 1, the failed invocation is the last one, no subprocess is *)
(* running, collect_results was never called and nothing was written.     *)
(***************************************************************************)
C1_FailFast ==
    \A k \in 1..Len(returncodes) :
        returncodes[k] # 0 =>
            /\ pc = "exit"
            /\ exit_code = <<1>>
            /\ Len(invoked) = k
            /\ Len(returncodes) = k
            /\ active = {}
            /\ attempted = <<>>
            /\ last = <<>>
            /\ results = <<>>
            /\ table = <<>>
            /\ dest = "none"

C1_Witness ==
    /\ ~skip_run
    /\ Len(returncodes) = 3
    /\ returncodes[3] # 0
    /\ pc = "exit"

(***************************************************************************)
(* C2: once the process has exited, the exit code is 0 exactly when no     *)
(* invocation failed and at least one configuration yielded a result, and  *)
(* 1 otherwise; the table is written exactly in the exit-0 case and has a  *)
(* data row.                                                               *)
(***************************************************************************)
C2_ExitCode ==
    exit_code # <<>> =>
        /\ exit_code = <<0>> <=> (~Failed /\ results # <<>>)
        /\ exit_code = <<1>> <=> (Failed \/ results = <<>>)
        /\ dest # "none" <=> exit_code = <<0>>
        /\ table # <<>> <=> exit_code = <<0>>
        /\ table # <<>> =>
              Len(Split(table, "\n")) > Len(TableHead) + Len(TableFoot)

(***************************************************************************)
(* C3: a call of collect_results returns; it returns a result only when    *)
(* each of the three phases has a matching directory whose estimates.json  *)
(* holds a number at mean.point_estimate, and absent otherwise; a result   *)
(* carries the three phases' values in the order witness, proof, verify.   *)
(***************************************************************************)
HasMatch(phase, config) ==
    /\ fs[phase].exists
    /\ \E k \in 1..Len(fs[phase].entries) :
          /\ fs[phase].entries[k].is_dir
          /\ HasPrefix(fs[phase].entries[k].name, Prefix(config))

IsNumeric(doc) ==
    /\ doc.state = "json"
    /\ doc.top = "object"
    /\ doc.mean = "object"
    /\ doc.point_estimate = "number"

C3_AllOrNothing ==
    last # <<>> =>
        LET call == last[1]
            complete ==
                /\ \A p \in 1..Len(phases) : HasMatch(phases[p], call.config)
                /\ Len(call.dirs) = Len(phases)
                /\ \A p \in 1..Len(phases) : IsNumeric(call.dirs[p][1].estimates)
        IN  /\ call.exc = "none"
            /\ call.ret # <<>> <=> complete
            /\ call.ret # <<>> =>
                  /\ call.ret[1].config = call.config
                  /\ call.ret[1].witness_time_ms =
                         Float(call.dirs[1][1].estimates.value, 1000000)
                  /\ call.ret[1].proof_time_ms =
                         Float(call.dirs[2][1].estimates.value, 1000000)
                  /\ call.ret[1].verify_time_ms =
                         Float(call.dirs[3][1].estimates.value, 1000000)

(***************************************************************************)
(* C4: every call of read_benchmark_time returns without raising; it       *)
(* returns absent when estimates.json is missing, is not JSON or has no    *)
(* number at mean.point_estimate, whatever the shape of the document, and  *)
(* the point estimate divided by 1,000,000 otherwise; no exception leaves  *)
(* main.                                                                   *)
(***************************************************************************)
C4_ReadNeverRaises ==
    /\ pc # "raised"
    /\ last # <<>> =>
          \A p \in 1..Len(last[1].reads) :
              LET doc == last[1].dirs[p][1].estimates
                  read == last[1].reads[p]
              IN  /\ read.exc = "none"
                  /\ read.val = <<>> <=> ~IsNumeric(doc)
                  /\ read.val # <<>> => read.val[1] = Float(doc.value, 1000000)

(***************************************************************************)
(* C5: collection never stops the run.  No exception leaves main, the      *)
(* configurations collect_results was called for are a prefix of the sweep *)
(* in order, all of it once the report is reached, and the results are the *)
(* configurations of that prefix whose three phases are complete, in sweep *)
(* order, each once and same-lanes results contiguous.                     *)
(***************************************************************************)
Succeeds(k) ==
    \A p \in 1..Len(phases) :
        LET dir == find_benchmark_dir(fs, phases[p], BENCH_CONFIGS[k])
        IN  dir # <<>> /\ IsNumeric(dir[1].estimates)

C5_CollectAll ==
    /\ pc # "raised"
    /\ attempted = [k \in 1..Len(attempted) |-> k]
    /\ pc \in {"report", "exit"} /\ ~Failed => Len(attempted) = NumConfigs
    /\ LET good == {k \in 1..Len(attempted) : Succeeds(k)}
       IN  /\ Len(results) = Cardinality(good)
           /\ \A j \in 1..Len(results) :
                 \E k \in good :
                     /\ results[j].config = BENCH_CONFIGS[k]
                     /\ Cardinality({i \in good : i < k}) = j - 1
    /\ \A i, j \in 1..Len(results) :
          (i < j /\ results[i].config.lanes = results[j].config.lanes) =>
              \A m \in i..j : results[m].config.lanes = results[i].config.lanes

(***************************************************************************)
(* C6: benchmark runs are strictly sequential.  At most one subprocess is  *)
(* running; invocations follow the sweep order; an invocation starts only  *)
(* after all earlier ones returned 0; collect_results is called only when  *)
(* no subprocess runs and, unless the run was skipped, after every         *)
(* configuration's subprocess returned 0.                                  *)
(***************************************************************************)
C6_Sequential ==
    /\ Cardinality(active) <= 1
    /\ invoked = [k \in 1..Len(invoked) |-> k]
    /\ active # {} => active = {invoked[Len(invoked)]}
    /\ Len(returncodes) = Len(invoked) - Cardinality(active)
    /\ \A k \in 1..Len(invoked) - 1 : returncodes[k] = 0
    /\ skip_run => invoked = <<>>
    /\ (pc \in {"collect", "report"} \/ attempted # <<>>) =>
          /\ active = {}
          /\ ~skip_run =>
                /\ Len(returncodes) = NumConfigs
                /\ \A k \in 1..NumConfigs : returncodes[k] = 0

C6_Witness ==
    /\ ~skip_run
    /\ Len(returncodes) = NumConfigs
    /\ Len(attempted) >= 1

(***************************************************************************)
(* C7: the prefix find_benchmark_dir looks for is                          *)
(* iterations_<iterations>_ when lanes = 1 and                             *)
(* iterations_<iterations>_lanes_<lanes>_ otherwise; each call recorded by *)
(* collect_results returned absent exactly when the phase directory does   *)
(* not exist or has no child directory whose name starts with the prefix,  *)
(* and otherwise a child that is a directory and whose name starts with    *)
(* the prefix.                                                             *)
(***************************************************************************)
IterationsWord == <<"i", "t", "e", "r", "a", "t", "i", "o", "n", "s">>
LanesWord == <<"l", "a", "n", "e", "s">>

PrefixIsFor(prefix, config) ==
    LET words == Split(prefix, "_")
    IN  IF config.lanes = 1
        THEN /\ Len(words) = 3
             /\ words[1] = IterationsWord
             /\ IsDecimal(words[2]) /\ DecimalValue(words[2]) = config.iterations
             /\ words[3] = <<>>
        ELSE /\ Len(words) = 5
             /\ words[1] = IterationsWord
             /\ IsDecimal(words[2]) /\ DecimalValue(words[2]) = config.iterations
             /\ words[3] = LanesWord
             /\ IsDecimal(words[4]) /\ DecimalValue(words[4]) = config.lanes
             /\ words[5] = <<>>

Contiguous(rs) ==
    \A i, j \in 1..Len(rs) :
        (i < j /\ rs[i].config.lanes = rs[j].config.lanes) =>
            \A m \in i..j : rs[m].config.lanes = rs[i].config.lanes

Transition(rs, k) == k > 1 /\ rs[k].config.lanes # rs[k - 1].config.lanes

C8_Separators ==
    (table # <<>> /\ Contiguous(results)) =>
        LET lines == Split(table, "\n")
            body == SubSeq(lines, Len(TableHead) + 1, Len(lines) - Len(TableFoot))
            n == Len(results)
            pos(k) == k + Cardinality({j \in 1..k : Transition(results, j)})
        IN  /\ SubSeq(lines, 1, Len(TableHead)) = TableHead
            /\ SubSeq(lines, Len(lines) - Len(TableFoot) + 1, Len(lines)) = TableFoot
            /\ Len(body) = pos(n)
            /\ \A k \in 1..n :
                  /\ body[pos(k)] = TableRow(results[k])
                  /\ Transition(results, k) => body[pos(k) - 1] = <<"\\midrule">>
            /\ Cardinality({i \in 1..Len(body) : body[i] = <<"\\midrule">>})
                  = Cardinality({j \in 1..n : Transition(results, j)})
            /\ body[1] # <<"\\midrule">>
            /\ body[Len(body)] # <<"\\midrule">>

C8_Witness ==
    /\ table # <<>>
    /\ Len(results) = 3
    /\ results[1].config.lanes = results[2].config.lanes
    /\ results[2].config.lanes # results[3].config.lanes

(***************************************************************************)
(* C9: the tool's own environment stays the startup environment, and the   *)
(* environment handed to the latest subprocess is the startup environment  *)
(* except for ITERATIONS and LANES, the decimal texts of the               *)
(* configuration's values, and RUSTFLAGS, the startup value (empty when    *)
(* unset) followed by one " -C target-cpu=native".                         *)
(***************************************************************************)
SetKeys == {"ITERATIONS", "LANES", "RUSTFLAGS"}

C9_SubprocessEnv ==
    /\ environ = startup_env
    /\ child_env # <<>> =>
          LET env == child_env[1]
              config == BENCH_CONFIGS[invoked[Len(invoked)]]
              flags == IF "RUSTFLAGS" \in DOMAIN startup_env
                       THEN startup_env["RUSTFLAGS"] ELSE <<>>
          IN  /\ DOMAIN env = DOMAIN startup_env \cup SetKeys
              /\ \A key \in DOMAIN startup_env \ SetKeys : env[key] = startup_env[key]
              /\ IsDecimal(env["ITERATIONS"])
              /\ DecimalValue(env["ITERATIONS"]) = config.iterations
              /\ IsDecimal(env["LANES"])
              /\ DecimalValue(env["LANES"]) = config.lanes
              /\ env["RUSTFLAGS"] = flags \o <<" -C target-cpu=native">>

C9_Witness ==
    /\ Len(invoked) = 3
    /\ pc = "wait"
    /\ "RUSTFLAGS" \in DOMAIN startup_env

(***************************************************************************)
(* C10: when every phase directory holds one directory per configuration   *)
(* of the sweep, named as the benchmark names it, every directory          *)
(* find_benchmark_dir returned to collect_results is the one written for   *)
(* the configuration asked for.                                            *)
(***************************************************************************)
TreeComplete ==
    \A p \in 1..Len(phases) :
        /\ fs[phases[p]].exists
        /\ \A k \in 1..NumConfigs :
              \E i \in 1..Len(fs[phases[p]].entries) :
                  /\ fs[phases[p]].entries[i].is_dir
                  /\ fs[phases[p]].entries[i].name = UpstreamName(BENCH_CONFIGS[k])

C10_OwnDirectory ==
    (last # <<>> /\ TreeComplete) =>
        \A p \in 1..Len(last[1].dirs) :
            /\ last[1].dirs[p] # <<>>
            /\ last[1].dirs[p][1].name = UpstreamName(last[1].config)

====
